---------------------------- MODULE Spec2Model ----------------------------
(***************************************************************************)
(* Model of app.py, the Multi-Fuel Carbon & Cost Scenario Explorer: the    *)
(* calculation helpers, the cached run_model and the Streamlit script that *)
(* stores the latest result (kpi) and the calculation history.             *)
(*                                                                         *)
(* Numbers.  The program computes in Python floats, IEEE-754 binary64.     *)
(* The model computes the same expressions in the same order on binary     *)
(* floating-point numbers with a 53-bit significand, every operation       *)
(* rounded to nearest, ties to even.  The exponent is unbounded: overflow  *)
(* to infinity, subnormal numbers, NaN and the sign of zero are outside    *)
(* the model (no input of the model comes near them).                      *)
(***************************************************************************)
EXTENDS Integers, Sequences, FiniteSets, TLC

(***************************************************************************)
(* Arbitrary-precision naturals: a sequence of limbs in base LimbBase,     *)
(* least significant first, without leading zero limbs; <<>> is zero.      *)
(* A product of two limbs plus a carry stays below 2^31.                   *)
(***************************************************************************)
LimbBits == 3 * 5
LimbBase == 2^LimbBits

\* the limb i of a, zero above the top limb
Limb(a, i) == IF i <= Len(a) THEN a[i] ELSE 0

\* the index of the top nonzero limb of a, 0 if there is none
Top(a) ==
    CHOOSE n \in 0..Len(a) :
        (n = 0 \/ a[n] # 0) /\ \A j \in (n + 1)..Len(a) : a[j] = 0

\* a without leading zero limbs
Trim(a) == SubSeq(a, 1, Top(a))

\* the natural k < 2^31
Big(k) ==
    Trim(<<k % LimbBase, (k \div LimbBase) % LimbBase,
           k \div (LimbBase * LimbBase)>>)

\* the natural a, of at most three limbs and below 2^31, as an integer
BigToInt(a) ==
    Limb(a, 1) + LimbBase * Limb(a, 2) + LimbBase * LimbBase * Limb(a, 3)

Longer(a, b) == IF Len(a) < Len(b) THEN Len(b) ELSE Len(a)

\* whether the limbs below i of a and b carry into the limb i of a + b
Carry(a, b, i) ==
    \E j \in 1..(i - 1) :
        /\ Limb(a, j) + Limb(b, j) >= LimbBase
        /\ \A k \in (j + 1)..(i - 1) : Limb(a, k) + Limb(b, k) = LimbBase - 1

\* a + b
BAdd(a, b) ==
    Trim(<<>> \o [i \in 1..(Longer(a, b) + 1) |->
                    (Limb(a, i) + Limb(b, i)
                     + (IF Carry(a, b, i) THEN 1 ELSE 0)) % LimbBase])

\* whether the limbs below i of a and b borrow from the limb i of a - b
Borrow(a, b, i) ==
    \E j \in 1..(i - 1) :
        /\ Limb(a, j) < Limb(b, j)
        /\ \A k \in (j + 1)..(i - 1) : Limb(a, k) = Limb(b, k)

\* a - b for a >= b
BSub(a, b) ==
    Trim(<<>> \o [i \in 1..Len(a) |->
                    (a[i] - Limb(b, i) - (IF Borrow(a, b, i) THEN 1 ELSE 0)
                     + LimbBase) % LimbBase])

\* a * k for a limb k: the low halves of the products of the limbs, plus
\* their high halves one limb up
BMulSmall(a, k) ==
    BAdd(<<>> \o [i \in 1..Len(a) |-> (a[i] * k) % LimbBase],
         <<0>> \o [i \in 1..Len(a) |-> (a[i] * k) \div LimbBase])

\* a * LimbBase
ShiftLimb(a) == IF a = <<>> THEN a ELSE <<0>> \o a

\* a * b, limb by limb of b
RECURSIVE BMul(_, _)
BMul(a, b) ==
    IF a = <<>> \/ b = <<>> THEN <<>>
    ELSE BAdd(BMulSmall(a, Head(b)), ShiftLimb(BMul(a, Tail(b))))

\* the top index at which a and b, of the same length, differ; 0 if none
TopDiff(a, b) ==
    CHOOSE n \in 0..Len(a) :
        (n = 0 \/ a[n] # b[n]) /\ \A j \in (n + 1)..Len(a) : a[j] = b[j]

BCmpAt(a, b, n) == IF n = 0 THEN 0 ELSE IF a[n] < b[n] THEN -1 ELSE 1

\* -1, 0 or 1 as a < b, a = b, a > b
BCmp(a, b) ==
    IF Len(a) < Len(b) THEN -1
    ELSE IF Len(a) > Len(b) THEN 1
    ELSE BCmpAt(a, b, TopDiff(a, b))

\* the number of bits of the limb k
BitLenSmall(k) ==
    CHOOSE n \in 0..LimbBits : k < 2^n /\ (n = 0 \/ k >= 2^(n - 1))

\* the number of bits of a
BitLen(a) ==
    IF a = <<>> THEN 0
    ELSE (Len(a) - 1) * LimbBits + BitLenSmall(a[Len(a)])

Zeros(n) == [i \in 1..n |-> 0]

\* a * 2^k
BShl(a, k) ==
    IF a = <<>> THEN a
    ELSE Zeros(k \div LimbBits) \o BMulSmall(a, 2^(k % LimbBits))

\* floor(b / 2^r) for r < LimbBits
BShrBits(b, r) ==
    Trim(<<>> \o [i \in 1..Len(b) |->
                    (b[i] \div 2^r)
                    + (Limb(b, i + 1) % 2^r) * 2^(LimbBits - r)])

\* floor(a / 2^k)
BShr(a, k) ==
    IF k \div LimbBits >= Len(a) THEN <<>>
    ELSE BShrBits(SubSeq(a, k \div LimbBits + 1, Len(a)), k % LimbBits)

\* a mod 2^(q * LimbBits + r)
BLowAt(a, q, r) ==
    IF q >= Len(a) THEN a ELSE Trim(SubSeq(a, 1, q) \o <<a[q + 1] % 2^r>>)

\* a mod 2^k
BLow(a, k) == BLowAt(a, k \div LimbBits, k % LimbBits)

\* the quotient digit of r by b, est being it or 1 or 2 more: the largest d
\* with d * b <= r
FixDigit(r, b, est) ==
    IF BCmp(BMulSmall(b, est), r) <= 0 THEN est
    ELSE IF BCmp(BMulSmall(b, est - 1), r) <= 0 THEN est - 1
    ELSE est - 2

\* the two top limbs of r, a number of at most n + 1 limbs, as an integer
TopTwo(r, n) == Limb(r, n + 1) * LimbBase + Limb(r, n)

\* long division of the limbs i..Len(a) of a by b, whose top limb is at
\* least LimbBase / 2: <<quotient, remainder>>.  h is the division of the
\* limbs above i and r the running remainder.  A quotient digit d is
\* estimated from the two top limbs of r (the estimate is never too small
\* and at most 2 too large) and then corrected.
LongDivOut(h, r, b, d) ==
    <<<<d>> \o h[1], IF d = 0 THEN r ELSE BSub(r, BMulSmall(b, d))>>

LongDivEst(h, r, b, est) ==
    LongDivOut(h, r, b,
               FixDigit(r, b, IF est >= LimbBase THEN LimbBase - 1 ELSE est))

LongDivDigit(h, r, b) ==
    IF BCmp(r, b) < 0 THEN <<<<0>> \o h[1], r>>
    ELSE LongDivEst(h, r, b, TopTwo(r, Len(b)) \div b[Len(b)])

LongDivStep(h, limb, b) ==
    IF h = <<>> THEN h ELSE LongDivDigit(h, Trim(<<limb>> \o h[2]), b)

\* the limbs above Len(a) - Len(b) + 1 are less than b: they are the first
\* remainder
RECURSIVE LongDiv(_, _, _)
LongDiv(a, b, i) ==
    IF i > Len(a) - Len(b) + 1 THEN <<<<>>, Trim(SubSeq(a, i, Len(a)))>>
    ELSE LongDivStep(LongDiv(a, b, i + 1), a[i], b)

\* h, the division of a * 2^sh by b * 2^sh, as the division of a by b
Unshift(h, sh) == <<Trim(h[1]), BShr(h[2], sh)>>

BDivModBy(a, b, sh) == Unshift(LongDiv(BShl(a, sh), BShl(b, sh), 1), sh)

\* <<quotient, remainder>> of a by b # 0
BDivMod(a, b) == BDivModBy(a, b, LimbBits - BitLenSmall(b[Len(b)]))

\* the number of trailing zero bits of the limb k # 0
TrailingZerosSmall(k) ==
    CHOOSE t \in 0..(LimbBits - 1) : k % 2^t = 0 /\ k % 2^(t + 1) # 0

\* the index of the lowest nonzero limb of a # 0
Bottom(a) ==
    CHOOSE n \in 1..Len(a) : a[n] # 0 /\ \A j \in 1..(n - 1) : a[j] = 0

\* the number of trailing zero bits of a # 0
TrailingZeros(a) ==
    (Bottom(a) - 1) * LimbBits + TrailingZerosSmall(a[Bottom(a)])

(***************************************************************************)
(* Floats: [s |-> sign, m |-> significand, e |-> exponent], the number     *)
(* s * m * 2^e, with m odd and below 2^Precision; zero is [0, <<>>, 0].    *)
(***************************************************************************)
Precision == 52 + 1

Abs(i) == IF i < 0 THEN -i ELSE i
Sgn(i) == IF i < 0 THEN -1 ELSE IF i = 0 THEN 0 ELSE 1

Zero == [s |-> 0, m |-> <<>>, e |-> 0]

\* the float s * m * 2^e for m of at most Precision bits; tz is the number
\* of trailing zero bits of m
CanonAt(s, m, e, tz) == [s |-> s, m |-> BShr(m, tz), e |-> e + tz]

Canon(s, m, e) ==
    IF m = <<>> \/ s = 0 THEN Zero ELSE CanonAt(s, m, e, TrailingZeros(m))

\* m * 2^e cut to Precision bits: <<the significand truncated, the exponent,
\* the bits cut off compared with half a unit in the last place (-1, 0, 1),
\* whether any nonzero bit was cut off>>
CutAt(m, e, sh, rem) ==
    <<BShr(m, sh), e + sh, BCmp(rem, BShl(<<1>>, sh - 1)), rem # <<>>>>

CutBy(m, e, sh) ==
    IF sh <= 0 THEN <<m, e, -1, FALSE>> ELSE CutAt(m, e, sh, BLow(m, sh))

Cut(m, e) == CutBy(m, e, BitLen(m) - Precision)

\* the cut c with sign s, its last place raised by one if up
RoundCut(s, c, up) ==
    Canon(s, IF up THEN BAdd(c[1], <<1>>) ELSE c[1], c[2])

RoundCutNearest(s, c) ==
    RoundCut(s, c, c[3] > 0 \/ (c[3] = 0 /\ c[4] /\ Head(c[1]) % 2 = 1))

RoundCutDirected(s, c, dir) == RoundCut(s, c, c[4] /\ dir = "up")

\* s * m * 2^e rounded to nearest, ties to even
RoundNearest(s, m, e) == RoundCutNearest(s, Cut(m, e))

\* s * m * 2^e rounded toward zero ("down") or away from zero ("up")
RoundDirected(s, m, e, dir) == RoundCutDirected(s, Cut(m, e), dir)

\* the float of an integer (below 2^31, so exact)
Flt(i) == Canon(Sgn(i), Big(Abs(i)), 0)

\* s1*a*2^e + s2*b*2^e for naturals a # b and c = BCmp(a, b), signs differing
SignedDiff(s1, a, s2, b, e, c) ==
    IF c = 0 THEN <<0, <<>>, e>>
    ELSE IF c > 0 THEN <<s1, BSub(a, b), e>>
    ELSE <<s2, BSub(b, a), e>>

\* s1*a*2^e + s2*b*2^e as <<sign, magnitude, exponent>>
SignedSum(s1, a, s2, b, e) ==
    IF s1 = 0 \/ a = <<>> THEN <<IF b = <<>> THEN 0 ELSE s2, b, e>>
    ELSE IF s2 = 0 \/ b = <<>> THEN <<s1, a, e>>
    ELSE IF s1 = s2 THEN <<s1, BAdd(a, b), e>>
    ELSE SignedDiff(s1, a, s2, b, e, BCmp(a, b))

ExactSumAt(x, y, e) ==
    SignedSum(x.s, BShl(x.m, x.e - e), y.s, BShl(y.m, y.e - e), e)

\* the exact sum x + y as <<sign, magnitude, exponent>>
ExactSum(x, y) == ExactSumAt(x, y, IF x.e < y.e THEN x.e ELSE y.e)

FNeg(x) == [x EXCEPT !.s = -x.s]

RoundExact(t) == RoundNearest(t[1], t[2], t[3])

\* x + y, x - y, x * y in float arithmetic
FAdd(x, y) ==
    IF x.s = 0 THEN y
    ELSE IF y.s = 0 THEN x
    ELSE RoundExact(ExactSum(x, y))

FSub(x, y) == FAdd(x, FNeg(y))

FMul(x, y) ==
    IF x.s = 0 \/ y.s = 0 THEN Zero
    ELSE RoundNearest(x.s * y.s, BMul(x.m, y.m), x.e + y.e)

\* the quotient qr[1] with one more bit, set if the remainder qr[2] is not
\* zero
Sticky(qr) == BAdd(BShl(qr[1], 1), IF qr[2] = <<>> THEN <<>> ELSE <<1>>)

FDivBy(x, y, k) ==
    RoundNearest(x.s * y.s, Sticky(BDivMod(BShl(x.m, k), y.m)),
                 x.e - y.e - k - 1)

NonNeg(i) == IF i > 0 THEN i ELSE 0

\* x / y in float arithmetic, for y # 0: the quotient of the significands
\* to Precision + 2 bits or more, with a sticky last bit for the remainder
FDiv(x, y) ==
    IF x.s = 0 THEN Zero
    ELSE FDivBy(x, y, NonNeg(Precision + 2 + BitLen(y.m) - BitLen(x.m)))

\* -1, 0 or 1 as x < y, x = y, x > y
FCmp(x, y) == ExactSum(x, FNeg(y))[1]
FLess(x, y) == FCmp(x, y) < 0
FIsZero(x) == x.s = 0

\* the float closest to the decimal p / q (a literal such as 0.7)
Dec(p, q) == FDiv(Flt(p), Flt(q))

\* Python's max(x, y): the first argument unless the second is greater
FMax(x, y) == IF FLess(x, y) THEN y ELSE x

\* s * q, or s * (q + 1) if the rest is above one half (twice > 0) or is
\* one half and q is odd
RoundHalfEven(s, q, twice) ==
    s * (IF twice > 0 \/ (twice = 0 /\ q % 2 = 1) THEN q + 1 ELSE q)

\* s * n / 2^k rounded to an integer
RoundScaled(s, n, k) ==
    RoundHalfEven(s, BigToInt(BShr(n, k)),
                  BCmp(BShl(BLow(n, k), 1), BShl(<<1>>, k)))

RoundNum(x, num) ==
    IF x.e >= 0 THEN RoundScaled(x.s, BShl(num, x.e), 0)
    ELSE RoundScaled(x.s, num, -x.e)

\* Python's round(x, nd) as the integer round(x, nd) * 10^nd: the multiple
\* of 10^-nd nearest to the exact value of x, a tie going to the even one
Round(x, nd) ==
    IF x.s = 0 THEN 0 ELSE RoundNum(x, BMul(x.m, Big(10^nd)))

(***************************************************************************)
(* Strings.  TLC's strings are atoms, so the strings the program takes     *)
(* apart (startswith, split) are spelled out character by character.  The  *)
(* program writes Bio-VLSFO with a non-breaking hyphen (U+2011), which the *)
(* ASCII hyphen stands for here.                                           *)
(***************************************************************************)
Spelling ==
    ("VLSFO" :> <<"V", "L", "S", "F", "O">>)
    @@ ("LNG" :> <<"L", "N", "G">>)
    @@ ("Bio-VLSFO" :> <<"B", "i", "o", "-", "V", "L", "S", "F", "O">>)
    @@ ("Methanol" :> <<"M", "e", "t", "h", "a", "n", "o", "l">>)
    @@ ("SMR (Nuclear)" :>
          <<"S", "M", "R", " ", "(", "N", "u", "c", "l", "e", "a", "r", ")">>)
    @@ ("SMR" :> <<"S", "M", "R">>)
    @@ ("Handysize (40 kt DWT)" :>
          <<"H", "a", "n", "d", "y", "s", "i", "z", "e", " ", "(", "4", "0",
            " ", "k", "t", " ", "D", "W", "T", ")">>)
    @@ ("Supramax (55 kt DWT)" :>
          <<"S", "u", "p", "r", "a", "m", "a", "x", " ", "(", "5", "5",
            " ", "k", "t", " ", "D", "W", "T", ")">>)
    @@ ("Panamax (75 kt DWT)" :>
          <<"P", "a", "n", "a", "m", "a", "x", " ", "(", "7", "5",
            " ", "k", "t", " ", "D", "W", "T", ")">>)

StartsWith(c, p) == Len(p) <= Len(c) /\ SubSeq(c, 1, Len(p)) = p

\* str.startswith(prefix)
startswith(str, prefix) == StartsWith(Spelling[str], Spelling[prefix])

\* str.split()[0] for a string that starts with no blank: the characters
\* before the first blank
RECURSIVE UpToBlank(_)
UpToBlank(c) ==
    IF c = <<>> \/ Head(c) = " " THEN <<>>
    ELSE <<Head(c)>> \o UpToBlank(Tail(c))

first_word(str) == UpToBlank(Spelling[str])

(***************************************************************************)
(* Data classes and constants                                              *)
(***************************************************************************)
Fuel(label, density, lhv, co2_factor, price) ==
    [label |-> label, density_t_m3 |-> density, lhv_mj_kg |-> lhv,
     co2_factor_kg_t |-> co2_factor, price_usd_t |-> price]

VesselClass(name, a, cargo) ==
    [name |-> name, coefficient_a |-> a, cargo_tonnes |-> cargo]

\* density_t_m3 and lhv_mj_kg enter no calculation: they are kept as the
\* decimal literals of the source, <<digits, decimal places>>
FUEL_DATA ==
    ("VLSFO" :> Fuel("VLSFO", <<97, 2>>, <<402, 1>>, 3114, 650))
    @@ ("LNG" :> Fuel("LNG", <<45, 2>>, <<500, 1>>, 2750, 450))
    @@ ("Bio-VLSFO" :> Fuel("Bio-VLSFO", <<93, 2>>, <<397, 1>>, 180, 900))
    @@ ("Methanol" :> Fuel("Methanol", <<79, 2>>, <<199, 1>>, 1375, 550))
    @@ ("SMR (Nuclear)" :> Fuel("SMR (Nuclear)", <<191, 1>>, <<80620, 0>>, 0, 0))

\* 24 / 16**3 and its like: the division of two ints, correctly rounded
A_HANDY == FDiv(Flt(24), Flt(16 * 16 * 16))
A_SUPRA == FDiv(Flt(30), Flt(16 * 16 * 16))
A_PAN == FDiv(Flt(44), Flt(16 * 16 * 16))

VESSEL_CLASSES ==
    [k \in {"Handysize (40 kt DWT)", "Supramax (55 kt DWT)",
            "Panamax (75 kt DWT)"} |->
       CASE k = "Handysize (40 kt DWT)" ->
              VesselClass("Handysize", A_HANDY, 40000)
         [] k = "Supramax (55 kt DWT)" ->
              VesselClass("Supramax", A_SUPRA, 55000)
         [] k = "Panamax (75 kt DWT)" ->
              VesselClass("Panamax", A_PAN, 75000)]

(***************************************************************************)
(* Calculations.  A call returns Ok(value) or raises: Raise(exception).    *)
(***************************************************************************)
Ok(v) == [status |-> "ok", value |-> v]
Raise(exc) == [status |-> exc]

\* a faulty variant of pow3: the square
pow2(x, up) == FMul(x, x)

\* x ** 3 goes to the C library's pow, which need not round correctly: it
\* returns one of the two floats next to the exact cube (the cube itself
\* when that is a float).  up: whether the platform's pow returns, for this
\* x, the one away from zero.
pow3(x, up) ==
    RoundDirected(x.s, BMul(BMul(x.m, x.m), x.m), 3 * x.e,
                  IF up THEN "up" ELSE "down")

\* whether x ** 3 is a float, so that every pow returns it
CubeExact(x) == BitLen(BMul(BMul(x.m, x.m), x.m)) <= Precision

\* the literal 0.7
FLOOR == Dec(7, 10)

\* a faulty variant of penalty_factor: no floor
penalty_factor_unfloored(foul, wind, solar) ==
    FMul(FAdd(Flt(1), FDiv(foul, Flt(100))),
         FSub(Flt(1), FDiv(FAdd(wind, solar), Flt(100))))

penalty_factor(foul, wind, solar) ==
    LET fouling == FAdd(Flt(1), FDiv(foul, Flt(100)))
        assist == FSub(Flt(1), FDiv(FAdd(wind, solar), Flt(100)))
    IN  FMax(FMul(fouling, assist), FLOOR)

\* num / den of two floats
truediv(num, den) ==
    IF FIsZero(den) THEN Raise("ZeroDivisionError") ELSE Ok(FDiv(num, den))

\* a faulty variant of voyage_days: hours taken for days
voyage_days_in_hours(dist_nm, speed_kn) == truediv(dist_nm, speed_kn)

voyage_days(dist_nm, speed_kn) == truediv(dist_nm, FMul(speed_kn, Flt(24)))

\* the local daily of fuel_tonnes
daily_burn(vessel, speed_kn, foul, wind, solar, up) ==
    FMul(FMul(vessel.coefficient_a, pow3(speed_kn, up)),
         penalty_factor(foul, wind, solar))

\* daily * voyage_days(...): days is what voyage_days returned
voyage_burn(daily, days) ==
    IF days.status # "ok" THEN days ELSE Ok(FMul(daily, days.value))

\* a faulty variant of fuel_tonnes: no short cut for the reactor
fuel_tonnes_burning(vessel, fuel, speed_kn, dist_nm, foul, wind, solar, up) ==
    voyage_burn(daily_burn(vessel, speed_kn, foul, wind, solar, up),
                voyage_days(dist_nm, speed_kn))

fuel_tonnes(vessel, fuel, speed_kn, dist_nm, foul, wind, solar, up) ==
    IF startswith(fuel.label, "SMR") THEN Ok(Zero)
    ELSE voyage_burn(daily_burn(vessel, speed_kn, foul, wind, solar, up),
                     voyage_days(dist_nm, speed_kn))

co2_t(fuel_t, fuel) ==
    FDiv(FMul(fuel_t, Flt(fuel.co2_factor_kg_t)), Flt(1000))

fuel_cost(fuel_t, fuel) == FMul(fuel_t, Flt(fuel.price_usd_t))

\* a faulty variant of carbon_cost: the price left out
carbon_cost_unpriced(co2, price) == co2

carbon_cost(co2, price) == FMul(co2, price)

usd_per_tonne_mile(total, cargo_t, dist_nm) ==
    truediv(total, FMul(Flt(cargo_t), dist_nm))

Args(vessel_key, fuel_key, speed, dist_nm, foul, wind, solar, co2_price) ==
    [vessel_key |-> vessel_key, fuel_key |-> fuel_key, speed |-> speed,
     dist_nm |-> dist_nm, foul |-> foul, wind |-> wind, solar |-> solar,
     co2_price |-> co2_price]

\* the body of run_model for the arguments a, statement by statement, each
\* taking the locals assigned before it; ctm is what usd_per_tonne_mile
\* returned
run_model_return(fuel_t, co2, fuel_sp, carb_sp, total, ctm) ==
    IF ctm.status # "ok" THEN ctm
    ELSE Ok([fuel_t |-> fuel_t, co2_t |-> co2, fuel_spend |-> fuel_sp,
             carbon_spend |-> carb_sp, total_spend |-> total,
             usd_per_tonne_mile |-> ctm.value])

run_model_total(vessel, a, fuel_t, co2, fuel_sp, carb_sp, total) ==
    run_model_return(fuel_t, co2, fuel_sp, carb_sp, total,
                     usd_per_tonne_mile(total, vessel.cargo_tonnes, a.dist_nm))

run_model_carbon(vessel, a, fuel_t, co2, fuel_sp, carb_sp) ==
    run_model_total(vessel, a, fuel_t, co2, fuel_sp, carb_sp,
                    FAdd(fuel_sp, carb_sp))

run_model_co2(vessel, a, fuel_t, co2, fuel_sp) ==
    run_model_carbon(vessel, a, fuel_t, co2, fuel_sp,
                     carbon_cost(co2, a.co2_price))

\* fuel_t is what fuel_tonnes returned
run_model_fuel(vessel, fuel, a, fuel_t) ==
    IF fuel_t.status # "ok" THEN fuel_t
    ELSE run_model_co2(vessel, a, fuel_t.value, co2_t(fuel_t.value, fuel),
                       fuel_cost(fuel_t.value, fuel))

run_model_body(vessel, fuel, a, up) ==
    run_model_fuel(vessel, fuel, a,
                   fuel_tonnes(vessel, fuel, a.speed, a.dist_nm,
                               a.foul, a.wind, a.solar, up))

\* a faulty variant of run_model: an unknown key falls back to a default
run_model_defaulting(a, up) ==
    run_model_body(VESSEL_CLASSES[IF a.vessel_key \in DOMAIN VESSEL_CLASSES
                                  THEN a.vessel_key
                                  ELSE "Panamax (75 kt DWT)"],
                   FUEL_DATA[IF a.fuel_key \in DOMAIN FUEL_DATA
                             THEN a.fuel_key ELSE "VLSFO"],
                   a, up)

\* up: whether the platform's pow rounds up for the speed of a
run_model(a, up) ==
    IF a.vessel_key \notin DOMAIN VESSEL_CLASSES THEN Raise("KeyError")
    ELSE IF a.fuel_key \notin DOMAIN FUEL_DATA THEN Raise("KeyError")
    ELSE run_model_body(VESSEL_CLASSES[a.vessel_key], FUEL_DATA[a.fuel_key],
                        a, up)

(***************************************************************************)
(* State                                                                   *)
(***************************************************************************)
VARIABLES
    ui,             \* the widgets' values, and calculate_clicked as of the
                    \* latest script run
    session_state,  \* st.session_state: the keys "history" and "kpi"
    cache,          \* the entries st.cache_data holds for run_model
    ret,            \* the latest call of a calculation and what it returned
    returned,       \* history variable: the calls so far in order, each as
                    \* [args, out, caller]
    runs,           \* the number of script runs of the session
    pow_up          \* the platform: the floats whose cube pow rounds away
                    \* from zero (toward zero for every other)

vars == <<ui, session_state, cache, ret, returned, runs, pow_up>>

\* bounds of the model
MaxRuns == 3        \* script runs in a session
MaxCalls == 2       \* ret.seq up to which another collaborator calls
MaxClock == 1       \* the clock readings are 0..MaxClock
PctSteps == 6       \* penalty_factor is tried on -PctSteps..PctSteps steps

Times == 0..MaxClock

NoCall == [seq |-> 0, fn |-> "", caller |-> ""]
Empty == [k \in {} |-> k]

(***************************************************************************)
(* The sidebar: a sample of each widget's range holding its minimum, its   *)
(* default and its maximum.                                                *)
(***************************************************************************)
ClassChoices == DOMAIN VESSEL_CLASSES
\* a faulty variant of SpeedChoices: a slider that starts at 0
SpeedChoicesFromZero == {Flt(0), Flt(13), Flt(16)}

SpeedChoices == {Flt(8), Flt(13), Flt(16)}
FuelChoices == DOMAIN FUEL_DATA
DistanceChoices == {Flt(100), Flt(10000), Flt(50000)}
FoulingChoices == {0, 15}
WindChoices == {0, 10, 30}
SolarChoices == {0, 3, 10}
PriceChoices == {Flt(0), Flt(100), Flt(1000)}

\* the widgets of a fresh session
Defaults ==
    [ship_class |-> "Panamax (75 kt DWT)", speed_kn |-> Flt(13),
     fuel_label |-> "VLSFO", distance_nm |-> Flt(10000),
     hull_fouling_pct |-> 0, want_wind |-> FALSE, wind_pct |-> 10,
     want_solar |-> FALSE, solar_pct |-> 3,
     carbon_price_usd_t |-> Flt(100), calculate_clicked |-> FALSE]

\* what one interaction other than the button can make of the widgets w; a
\* disabled slider cannot be moved
WidgetEdits(w) ==
    ({[w EXCEPT !.ship_class = v] : v \in ClassChoices}
     \cup {[w EXCEPT !.speed_kn = v] : v \in SpeedChoices}
     \cup {[w EXCEPT !.fuel_label = v] : v \in FuelChoices}
     \cup {[w EXCEPT !.distance_nm = v] : v \in DistanceChoices}
     \cup {[w EXCEPT !.hull_fouling_pct = v] : v \in FoulingChoices}
     \cup {[w EXCEPT !.want_wind = ~w.want_wind]}
     \cup {[w EXCEPT !.wind_pct = v] : v \in IF w.want_wind THEN WindChoices ELSE {}}
     \cup {[w EXCEPT !.want_solar = ~w.want_solar]}
     \cup {[w EXCEPT !.solar_pct = v] : v \in IF w.want_solar THEN SolarChoices ELSE {}}
     \cup {[w EXCEPT !.carbon_price_usd_t = v] : v \in PriceChoices})
    \ {w}

wind_assist_pct(w) == IF w.want_wind THEN w.wind_pct ELSE 0
solar_assist_pct(w) == IF w.want_solar THEN w.solar_pct ELSE 0

\* the arguments the script passes to run_model
ScriptArgs(w) ==
    Args(w.ship_class, w.fuel_label, w.speed_kn, w.distance_nm,
         Flt(w.hull_fouling_pct), Flt(wind_assist_pct(w)),
         Flt(solar_assist_pct(w)), w.carbon_price_usd_t)

(***************************************************************************)
(* run_model behind st.cache_data                                          *)
(***************************************************************************)
\* a faulty variant of CacheKey: the carbon price left out of the key
CacheKeyUnpriced(a) == [a EXCEPT !.co2_price = Zero]

\* the key of a cache entry: the arguments of the call
CacheKey(a) == a

Up(a) == a.speed \in pow_up

\* a miss: the body of run_model ran and returned or raised out; a call
\* that raises stores nothing
cache_miss(a, out) ==
    [out |-> out,
     cache |-> IF out.status = "ok"
               THEN (CacheKey(a) :> out.value) @@ cache
               ELSE cache]

\* a call of the cached run_model: what it returns and the cache after it.
\* A hit returns the stored value.
cache_data(a) ==
    IF CacheKey(a) \in DOMAIN cache
    THEN [out |-> Ok(cache[CacheKey(a)]), cache |-> cache]
    ELSE cache_miss(a, run_model(a, Up(a)))

\* the call, and its record
Call(a, c, caller) ==
    /\ ret' = [seq |-> ret.seq + 1, fn |-> "run_model", caller |-> caller,
               args |-> a, out |-> c.out]
    /\ cache' = c.cache
    /\ returned' = Append(returned,
                          [args |-> a, out |-> c.out, caller |-> caller])

(***************************************************************************)
(* The script                                                              *)
(***************************************************************************)
\* a faulty variant of should_compute: every run computes
always_compute(clicked, ss) == TRUE

\* compute on click / first load
should_compute(clicked, ss) == clicked \/ "kpi" \notin DOMAIN ss

snapshot(now, w, kpi) ==
    [Time |-> now, Vessel |-> first_word(w.ship_class),
     Fuel |-> first_word(w.fuel_label), Speed_kn |-> w.speed_kn,
     Dist_nm |-> w.distance_nm, Fuel_t |-> Round(kpi.fuel_t, 1),
     CO2_t |-> Round(kpi.co2_t, 1),
     USD_per_t_mile |-> Round(kpi.usd_per_tonne_mile, 5)]

\* the branch of the script that computes: c is the call of run_model.  An
\* exception of run_model would end the run before kpi and the history are
\* assigned.
Compute(w, now, ss, c) ==
    /\ Call(ScriptArgs(w), c, "script")
    /\ session_state' =
         IF c.out.status = "ok"
         THEN ("kpi" :> c.out.value)
              @@ ("history" :>
                    Append(ss.history, snapshot(now, w, c.out.value)))
         ELSE ss

\* the script from the history's initialisation on, ss being the session
\* state after it
Script(w, clicked, now, ss) ==
    IF should_compute(clicked, ss)
    THEN Compute(w, now, ss, cache_data(ScriptArgs(w)))
    ELSE /\ session_state' = ss
         /\ UNCHANGED <<ret, cache, returned>>

\* one run of the script with the widgets at w, the button clicked or not,
\* and the clock reading now
ScriptRun(w, clicked, now) ==
    /\ ui' = [w EXCEPT !.calculate_clicked = clicked]
    /\ runs' = runs + 1
    /\ pow_up' = pow_up
    /\ Script(w, clicked, now,
              IF "history" \notin DOMAIN session_state
              THEN ("history" :> <<>>) @@ session_state
              ELSE session_state)

\* the session opens: the first run, the widgets at their defaults
FirstLoad ==
    /\ runs = 0
    /\ \E now \in Times : ScriptRun(ui, FALSE, now)

\* the user changes a widget: a run without the button
ChangeWidget ==
    /\ runs > 0
    /\ runs < MaxRuns
    /\ \E w \in WidgetEdits(ui) : \E now \in Times : ScriptRun(w, FALSE, now)

\* the user clicks Calculate
ClickCalculate ==
    /\ runs > 0
    /\ runs < MaxRuns
    /\ \E now \in Times : ScriptRun(ui, TRUE, now)

\* another collaborator calls run_model: the default scenario, or it with
\* an unknown vessel, an unknown fuel, or a speed of zero
DirectInputs ==
    {ScriptArgs(Defaults),
     [ScriptArgs(Defaults) EXCEPT !.vessel_key = "Capesize (180 kt DWT)"],
     [ScriptArgs(Defaults) EXCEPT !.fuel_key = "SMR"],
     [ScriptArgs(Defaults) EXCEPT !.speed = Flt(0)],
     [ScriptArgs(Defaults) EXCEPT !.co2_price = Flt(0)]}

DirectCall ==
    /\ ret.seq < MaxCalls
    /\ \E a \in DirectInputs : Call(a, cache_data(a), "direct")
    /\ UNCHANGED <<ui, session_state, runs, pow_up>>

Init ==
    /\ ui = Defaults
    /\ session_state = Empty
    /\ cache = Empty
    /\ ret = NoCall
    /\ returned = <<>>
    /\ runs = 0
    /\ pow_up = {}

Next == FirstLoad \/ ChangeWidget \/ ClickCalculate \/ DirectCall

Spec == Init /\ [][Next]_vars

(***************************************************************************)
(* Single calls of run_model on arguments of either sign                   *)
(***************************************************************************)
CalcSpeeds == {Flt(-13), Flt(0), Flt(13)}
CalcDistances == {Flt(-100), Flt(0), Flt(10000)}
CalcEfficiencies == {<<0, 0, 0>>, <<15, 30, 10>>}

CalcInputs ==
    {Args(v, f, s, d, Flt(e[1]), Flt(e[2]), Flt(e[3]), Flt(100)) :
        v \in ClassChoices, f \in FuelChoices, s \in CalcSpeeds,
        d \in CalcDistances, e \in CalcEfficiencies}

CalcCall ==
    /\ ret = NoCall
    /\ \E a \in CalcInputs : Call(a, cache_data(a), "direct")
    /\ UNCHANGED <<ui, session_state, runs, pow_up>>

SpecCalc == Init /\ [][CalcCall]_vars

(***************************************************************************)
(* Calls of penalty_factor on percentages inside and outside 0..100        *)
(***************************************************************************)
PctSamples == {25 * k : k \in -PctSteps..PctSteps}

PenaltyCall ==
    /\ ret = NoCall
    /\ \E f \in PctSamples, w \in PctSamples, so \in PctSamples :
          ret' = [seq |-> 1, fn |-> "penalty_factor", caller |-> "direct",
                  args |-> <<Flt(f), Flt(w), Flt(so)>>,
                  out |-> Ok(penalty_factor(Flt(f), Flt(w), Flt(so)))]
    /\ UNCHANGED <<ui, session_state, cache, returned, runs, pow_up>>

SpecPenalty == Init /\ [][PenaltyCall]_vars

(***************************************************************************)
(* Calls of run_model that differ in the carbon price only                 *)
(***************************************************************************)
\* the float next above 100.0
Above100 == [s |-> 1, m |-> BAdd(BShl(Big(100), Precision - 7), <<1>>),
             e |-> 7 - Precision]

PriceSamples == {Flt(0), Flt(100), Above100, Dec(10001, 100), Flt(1000)}

PriceInputs ==
    {Args(v, f, Flt(13), Flt(10000), Flt(0), Flt(0), Flt(0), p) :
        v \in ClassChoices, f \in FuelChoices, p \in PriceSamples}

PriceFirst ==
    /\ ret = NoCall
    /\ \E a \in PriceInputs : Call(a, cache_data(a), "direct")
    /\ UNCHANGED <<ui, session_state, runs, pow_up>>

PriceAgain ==
    /\ ret # NoCall
    /\ ret.seq < MaxCalls
    /\ \E p \in PriceSamples :
          Call([ret.args EXCEPT !.co2_price = p],
               cache_data([ret.args EXCEPT !.co2_price = p]), "direct")
    /\ UNCHANGED <<ui, session_state, runs, pow_up>>

NextPrice == PriceFirst \/ PriceAgain

SpecPrice == Init /\ [][NextPrice]_vars

(***************************************************************************)
(* The daily burn of fuel_tonnes at a speed and at twice the speed, on     *)
(* every platform: pow may round either way where the cube is no float     *)
(***************************************************************************)
Double(x) == FMul(Flt(2), x)

BurnSpeeds == {Flt(8), Dec(81, 10), Flt(13)}

InexactSpeeds ==
    {x \in BurnSpeeds \cup {Double(y) : y \in BurnSpeeds} : ~CubeExact(x)}

CombustionFuels == {f \in FuelChoices : ~startswith(FUEL_DATA[f].label, "SMR")}

BurnInputs ==
    {Args(v, f, s, Flt(10000), Flt(e[1]), Flt(e[2]), Flt(e[3]), Flt(100)) :
        v \in ClassChoices, f \in CombustionFuels, s \in BurnSpeeds,
        e \in CalcEfficiencies}

\* a call of fuel_tonnes for the arguments a, and its local daily
Burn(a) ==
    /\ ret' = [seq |-> ret.seq + 1, fn |-> "fuel_tonnes", caller |-> "direct",
               args |-> a,
               out |-> fuel_tonnes(VESSEL_CLASSES[a.vessel_key],
                                   FUEL_DATA[a.fuel_key], a.speed, a.dist_nm,
                                   a.foul, a.wind, a.solar, Up(a))]
    /\ returned' =
         Append(returned,
                [args |-> a,
                 daily |-> daily_burn(VESSEL_CLASSES[a.vessel_key], a.speed,
                                      a.foul, a.wind, a.solar, Up(a))])
    /\ UNCHANGED <<ui, session_state, cache, runs, pow_up>>

BurnFirst ==
    /\ ret = NoCall
    /\ \E a \in BurnInputs : Burn(a)

BurnDoubled ==
    /\ ret # NoCall
    /\ ret.seq = 1
    /\ Burn([ret.args EXCEPT !.speed = Double(ret.args.speed)])

InitSpeed ==
    /\ ui = Defaults
    /\ session_state = Empty
    /\ cache = Empty
    /\ ret = NoCall
    /\ returned = <<>>
    /\ runs = 0
    /\ pow_up \in SUBSET InexactSpeeds

NextSpeed == BurnFirst \/ BurnDoubled

SpecSpeed == InitSpeed /\ [][NextSpeed]_vars

(***************************************************************************)
(* Properties                                                              *)
(***************************************************************************)
Called == ret # NoCall

Positive(x) == x.s > 0

KeysExist(a) ==
    a.vessel_key \in DOMAIN VESSEL_CLASSES /\ a.fuel_key \in DOMAIN FUEL_DATA

\* C1: a call of run_model with existing keys and a speed, a distance or a
\* cargo tonnage that is not positive raises InvalidParameter: it returns no
\* result and raises nothing else.
C1_InvalidParameter ==
    (/\ Called
     /\ KeysExist(ret.args)
     /\ \/ ~Positive(ret.args.speed)
        \/ ~Positive(ret.args.dist_nm)
        \/ VESSEL_CLASSES[ret.args.vessel_key].cargo_tonnes <= 0)
    => ret.out = Raise("InvalidParameter")

\* C2: for the fuel "SMR (Nuclear)" a call of run_model that returns,
\* returns fuel_t, co2_t and fuel_spend of exactly zero, whatever the vessel,
\* speed, distance and percentages; and it returns whenever the distance is
\* not zero, a speed of zero included, the voyage duration not being
\* evaluated for fuel_t.
C2_ReactorBurnsNothing ==
    (Called /\ KeysExist(ret.args) /\ ret.args.fuel_key = "SMR (Nuclear)")
    => /\ ~FIsZero(ret.args.dist_nm) => ret.out.status = "ok"
       /\ ret.out.status = "ok"
            => /\ ret.out.value.fuel_t = Zero
               /\ ret.out.value.co2_t = Zero
               /\ ret.out.value.fuel_spend = Zero

\* the reactor at speed zero, fouled and assisted: a result of zeros
C2_Witness ==
    /\ Called
    /\ ret.args.fuel_key = "SMR (Nuclear)"
    /\ ret.args.speed = Zero
    /\ ret.args.foul = Flt(15)
    /\ ret.out.status = "ok"
    /\ ret.out.value.fuel_t = Zero

\* (1 + foul / 100) * (1 - (wind + solar) / 100) in float arithmetic
PenaltyProduct(foul, wind, solar) ==
    FMul(FAdd(Flt(1), FDiv(foul, Flt(100))),
         FSub(Flt(1), FDiv(FAdd(wind, solar), Flt(100))))

\* v is the greater of x and y
IsMax(v, x, y) == (v = x \/ v = y) /\ ~FLess(v, x) /\ ~FLess(v, y)

\* C3: for all percentages, those outside 0..100 included, penalty_factor
\* raises nothing and returns the greater of the product
\* (1 + foul/100) * (1 - (wind + solar)/100) and 0.7; what it returns is
\* never below 0.7.
C3_FloorHolds ==
    (Called /\ ret.fn = "penalty_factor")
    => /\ ret.out.status = "ok"
       /\ ~FLess(ret.out.value, Dec(7, 10))
       /\ IsMax(ret.out.value,
                PenaltyProduct(ret.args[1], ret.args[2], ret.args[3]),
                Dec(7, 10))

\* no fouling and assistance of 100 percent: the product is 0, the floor is
\* returned
C3_Witness ==
    /\ Called
    /\ ret.fn = "penalty_factor"
    /\ ret.args = <<Zero, Flt(100), Zero>>
    /\ ret.out = Ok(Dec(7, 10))

History(ss) == IF "history" \in DOMAIN ss THEN ss.history ELSE <<>>

\* C4: a call of run_model with a vessel key or a fuel key that the catalog
\* does not hold raises KeyError and returns no result, and the step of the
\* call changes neither the session state (kpi, history) nor the cache nor
\* the widgets.  (The catalog is a constant.)
C4_UnknownKey ==
    [][(ret'.seq = ret.seq + 1 /\ ~KeysExist(ret'.args))
         => /\ ret'.out = Raise("KeyError")
            /\ session_state' = session_state
            /\ cache' = cache
            /\ ui' = ui]_vars

\* a call with an unknown key has failed in a session that stores a kpi and
\* a history
C4_Witness ==
    /\ Called
    /\ ~KeysExist(ret.args)
    /\ ret.out = Raise("KeyError")
    /\ "kpi" \in DOMAIN session_state
    /\ Len(History(session_state)) >= 1
    /\ DOMAIN cache # {}

C5Scenario ==
    Args("Panamax (75 kt DWT)", "VLSFO", Flt(13), Flt(10000), Zero, Zero,
         Zero, Flt(100))

\* C5 as the code has it: for Panamax, VLSFO, 13 kn, 10,000 nm, no fouling,
\* no assistance and a carbon price of 100, the factor is 1.0 and run_model
\* returns fuel_t = 756.4 (to one decimal), co2_t = 2355.5 (to one decimal),
\* fuel_spend = 491,679, carbon_spend = 235,552 and total_spend = 727,231
\* (to the unit), and usd_per_tonne_mile = 0.000970 (to six decimals).
C5_ScenarioFigures ==
    (Called /\ ret.args = C5Scenario)
    => /\ ret.out.status = "ok"
       /\ penalty_factor(ret.args.foul, ret.args.wind, ret.args.solar) = Flt(1)
       /\ Round(ret.out.value.fuel_t, 1) = 7564
       /\ Round(ret.out.value.co2_t, 1) = 23555
       /\ Round(ret.out.value.fuel_spend, 0) = 491679
       /\ Round(ret.out.value.carbon_spend, 0) = 235552
       /\ Round(ret.out.value.total_spend, 0) = 727231
       /\ Round(ret.out.value.usd_per_tonne_mile, 6) = 970

C5_Witness == Called /\ ret.args = C5Scenario /\ ret.out.status = "ok"

\* C5 as stated: fuel_t = 756.7 and co2_t = 2355.4 to one decimal,
\* fuel_spend = 491,700 to the hundred, carbon_spend = 235,540 and
\* total_spend = 727,240 to the ten, usd_per_tonne_mile = 0.000970
C5_AsStated ==
    (Called /\ ret.args = C5Scenario)
    => /\ ret.out.status = "ok"
       /\ penalty_factor(ret.args.foul, ret.args.wind, ret.args.solar) = Flt(1)
       /\ Round(ret.out.value.fuel_t, 1) = 7567
       /\ Round(ret.out.value.co2_t, 1) = 23554
       /\ Round(ret.out.value.fuel_spend, 0) \in 491650..491750
       /\ Round(ret.out.value.carbon_spend, 0) \in 235535..235545
       /\ Round(ret.out.value.total_spend, 0) \in 727235..727245
       /\ Round(ret.out.value.usd_per_tonne_mile, 6) = 970

\* the calls p and q returned, differ in the carbon price at most, and p's
\* price is the lower
PricePair(p, q) ==
    /\ q.args = [p.args EXCEPT !.co2_price = q.args.co2_price]
    /\ FLess(p.args.co2_price, q.args.co2_price)
    /\ p.out.status = "ok"
    /\ q.out.status = "ok"

\* the prices of p and q are at least one cent apart
CentApart(p, q) ==
    ~FLess(FSub(q.args.co2_price, p.args.co2_price), Dec(1, 100))

PriceIndependent(u, v) ==
    u.fuel_t = v.fuel_t /\ u.co2_t = v.co2_t /\ u.fuel_spend = v.fuel_spend

\* C6 as the code has it: of two calls that differ in the carbon price only,
\* p1 < p2, the second's total_spend is not less than the first's; it is
\* greater when co2_t > 0 and the prices are at least 0.01 apart (both being
\* in the input range 0..1000); it is equal when co2_t = 0; fuel_t, co2_t and
\* fuel_spend are the same in both.
C6_Monotone ==
    \A i \in DOMAIN returned : \A j \in DOMAIN returned :
        PricePair(returned[i], returned[j])
        => /\ PriceIndependent(returned[i].out.value, returned[j].out.value)
           /\ ~FLess(returned[j].out.value.total_spend,
                     returned[i].out.value.total_spend)
           /\ (Positive(returned[i].out.value.co2_t)
               /\ CentApart(returned[i], returned[j]))
                => FLess(returned[i].out.value.total_spend,
                         returned[j].out.value.total_spend)
           /\ FIsZero(returned[i].out.value.co2_t)
                => returned[j].out.value.total_spend
                   = returned[i].out.value.total_spend

\* two prices a cent apart, emissions, and a greater total
C6_Witness ==
    /\ Len(returned) = 2
    /\ PricePair(returned[1], returned[2])
    /\ returned[1].args.co2_price = Flt(100)
    /\ returned[2].args.co2_price = Dec(10001, 100)
    /\ Positive(returned[1].out.value.co2_t)
    /\ FLess(returned[1].out.value.total_spend,
             returned[2].out.value.total_spend)

\* C6 as stated: the second's total_spend is greater whenever co2_t > 0
C6_AsStated ==
    \A i \in DOMAIN returned : \A j \in DOMAIN returned :
        PricePair(returned[i], returned[j])
        => /\ PriceIndependent(returned[i].out.value, returned[j].out.value)
           /\ Positive(returned[i].out.value.co2_t)
                => FLess(returned[i].out.value.total_spend,
                         returned[j].out.value.total_spend)
           /\ FIsZero(returned[i].out.value.co2_t)
                => returned[j].out.value.total_spend
                   = returned[i].out.value.total_spend

\* C7: two calls of run_model with the same arguments return the same,
\* wherever in the session they are made and whatever is called in between;
\* what a call returns, from the cache or not, is what the body of run_model
\* computes for its arguments; and a cache entry is what a call with these
\* arguments returned.
C7_SameArgsSameResult ==
    /\ \A i \in DOMAIN returned : \A j \in DOMAIN returned :
          returned[i].args = returned[j].args
          => returned[i].out = returned[j].out
    /\ Called => ret.out = run_model(ret.args, Up(ret.args))
    /\ \A k \in DOMAIN cache :
          \E i \in DOMAIN returned :
              returned[i].args = k /\ returned[i].out = Ok(cache[k])

\* a result was returned, another call was made, and the first arguments
\* were passed again
C7_Witness ==
    \E i \in DOMAIN returned : \E j \in DOMAIN returned :
        \E k \in DOMAIN returned :
            /\ i < j
            /\ j < k
            /\ returned[i].args = returned[k].args
            /\ returned[j].args # returned[i].args
            /\ returned[k].out.status = "ok"

\* |x - y| as a float of any width
AbsDiff(x, y) ==
    [s |-> Abs(ExactSum(x, FNeg(y))[1]), m |-> ExactSum(x, FNeg(y))[2],
     e |-> ExactSum(x, FNeg(y))[3]]

\* |x - y| <= |y| * 2^-49
Close(x, y) == FCmp(AbsDiff(x, y), [s |-> Abs(y.s), m |-> y.m, e |-> y.e - 49]) <= 0

\* pow rounds the cubes of x and of 2x the same way
SameRounding(x) ==
    CubeExact(x) \/ ((x \in pow_up) <=> (Double(x) \in pow_up))

IsPrefix(h, g) == Len(h) <= Len(g) /\ SubSeq(g, 1, Len(h)) = h

\* the snapshot h is of the widgets w and the result kpi
SnapshotOf(h, w, kpi) ==
    /\ h.Time \in Times
    /\ h.Vessel = first_word(w.ship_class)
    /\ h.Fuel = first_word(w.fuel_label)
    /\ h.Speed_kn = w.speed_kn
    /\ h.Dist_nm = w.distance_nm
    /\ h.Fuel_t = Round(kpi.fuel_t, 1)
    /\ h.CO2_t = Round(kpi.co2_t, 1)
    /\ h.USD_per_t_mile = Round(kpi.usd_per_tonne_mile, 5)

\* C9: in every step the history before is a prefix of the history after;
\* a script run in which Calculate was clicked, or before which no kpi was
\* stored, stores as kpi what run_model computes for the widgets of the run
\* and appends one snapshot of them to the history; every other script run
\* leaves kpi and the history as they were; a step that is no script run
\* leaves the session state as it was.
C9_HistoryAppendOnly ==
    [][/\ IsPrefix(History(session_state), History(session_state'))
       /\ runs' = runs => session_state' = session_state
       /\ runs' # runs
            => IF ui'.calculate_clicked \/ "kpi" \notin DOMAIN session_state
               THEN /\ Ok(session_state'.kpi)
                       = run_model(ScriptArgs(ui'), Up(ScriptArgs(ui')))
                    /\ Len(History(session_state'))
                       = Len(History(session_state)) + 1
                    /\ SnapshotOf(
                         History(session_state')[Len(History(session_state'))],
                         ui', session_state'.kpi)
               ELSE /\ session_state'.kpi = session_state.kpi
                    /\ History(session_state') = History(session_state)]_vars

\* three script runs: the first load, a change of the speed that computes
\* nothing, a click that appends the second snapshot
C9_Witness ==
    /\ runs = 3
    /\ ui.calculate_clicked
    /\ Len(History(session_state)) = 2
    /\ History(session_state)[1].Speed_kn = Flt(13)
    /\ History(session_state)[2].Speed_kn = Flt(8)

\* the widgets w are within their ranges
InRange(w) ==
    /\ w.ship_class \in DOMAIN VESSEL_CLASSES
    /\ w.fuel_label \in DOMAIN FUEL_DATA
    /\ ~FLess(w.speed_kn, Flt(8)) /\ ~FLess(Flt(16), w.speed_kn)
    /\ ~FLess(w.distance_nm, Flt(100)) /\ ~FLess(Flt(50000), w.distance_nm)
    /\ w.hull_fouling_pct \in 0..15
    /\ wind_assist_pct(w) \in 0..30
    /\ solar_assist_pct(w) \in 0..10
    /\ ~w.want_wind => wind_assist_pct(w) = 0
    /\ ~w.want_solar => solar_assist_pct(w) = 0
    /\ ~FLess(w.carbon_price_usd_t, Zero)
    /\ ~FLess(Flt(1000), w.carbon_price_usd_t)

\* C10: in every state of a session the widgets are within their ranges,
\* the arguments the script passes to run_model for them have keys of the
\* catalog and a positive speed, distance and cargo tonnage, no call of
\* run_model by the script has raised, and from the first script run on a
\* kpi is stored.
C10_ScriptCallsValid ==
    /\ InRange(ui)
    /\ KeysExist(ScriptArgs(ui))
    /\ Positive(ScriptArgs(ui).speed)
    /\ Positive(ScriptArgs(ui).dist_nm)
    /\ VESSEL_CLASSES[ScriptArgs(ui).vessel_key].cargo_tonnes > 0
    /\ \A i \in DOMAIN returned :
          returned[i].caller = "script" => returned[i].out.status = "ok"
    /\ runs > 0 => "kpi" \in DOMAIN session_state

\* the script has called run_model with the speed slider at its lowest
C10_Witness ==
    /\ Called
    /\ ret.caller = "script"
    /\ ret.args.speed = Flt(8)
    /\ ret.args = ScriptArgs(ui)
    /\ ret.out.status = "ok"

=============================================================================
